---- MODULE Spec2Model ----
(***************************************************************************)
(* Data refresh TaskGroup of the openverse catalog                         *)
(* (dags/data_refresh/data_refresh_task_factory.py): sibling data refresh  *)
(* DAGs, each made of the gate sensor wait_for_data_refresh followed by    *)
(* one trigger/wait pair per action, run by the Airflow scheduler against  *)
(* the ingestion server; and the provider script of the New York Public    *)
(* Library (dags/providers/provider_api_scripts/nypl.py): main, its page   *)
(* loop and the request helper _request_handler.                           *)
(***************************************************************************)
EXTENDS Integers, Sequences, FiniteSets, TLC

VARIABLES
    registered,     \* dag ids that have a row in the scheduler's DAG table
    dagrun,         \* dagrun[d]: state of the current DagRun of d
    run_id,         \* run_id[d]: number of the current DagRun of d (0: never scheduled)
    ti,             \* ti[d][t]: state of task instance t in the current DagRun of d
    exc,            \* exc[d][t]: exception that ended task instance t, "none" otherwise
    poke_result,    \* poke_result[d]: what the running gate sensor of d saw in its poke
    index_suffix,   \* index_suffix[d]: the uuid baked into the task definitions of d
    next_uuid,      \* source of fresh uuid4 values
    posted,         \* posted[d][r][a]: index_suffix POSTed by trigger_<a> in run r (0: none)
    xcom,           \* xcom[d][a]: return_value pushed by trigger_<a> ("none": nothing)
    polls,          \* polls[d][a]: GET requests issued by wait_for_<a> in the current run
    response,       \* observation: the last HTTP response handed to a task
    returned,       \* observation: returned[d][a]: status_check url answered to trigger_<a>
    sensor_log,     \* observation: sensor_log[d][a]: polls of wait_for_<a> answered
                    \* False, and seconds it has spent rescheduled
    pc,             \* nypl: where the script is
    page,           \* nypl.main: page
    condition,      \* nypl.main: condition
    caller,         \* nypl: who called _request_handler: "main" or "_handle_results"
    results,        \* nypl._request_handler: results (main: request_response)
    todo,           \* nypl._handle_results: items of the page still to handle
    exception,      \* nypl: exception that ended main, "none" otherwise
    request_log,    \* observation: responses of delay_request.get in the last call
                    \* of _request_handler
    requested,      \* observation: pages main has asked for, in order
    page_results,   \* observation: page_results[i]: what main got for requested[i]
    commits         \* observation: calls of image_store.commit()

vars == <<registered, dagrun, run_id, ti, exc, poke_result, index_suffix,
          next_uuid, posted, xcom, polls, response, returned, sensor_log,
          pc, page, condition, caller, results, todo, exception, request_log,
          requested, page_results, commits>>

nypl_vars == <<pc, page, condition, caller, results, todo, exception, request_log,
               requested, page_results, commits>>

data_refresh_vars == <<registered, dagrun, run_id, ti, exc, poke_result, index_suffix,
                       next_uuid, posted, xcom, polls, response, returned,
                       sensor_log>>

----------------------------------------------------------------------------
(* Bounds *)

MaxRuns == 2        \* DagRuns created per DAG
MaxUuid == 5        \* uuid4 values drawn in one behaviour
MaxPolls == 2       \* GET requests one wait_for_<action> sensor issues in one run
MaxPages == 2       \* pages of the NYPL search that can hold items
MaxItems == 2       \* items on one page of the NYPL search

----------------------------------------------------------------------------
(* Configuration *)

\* the data refresh DAGs, in the order the DAG files are first parsed; each is
\* configured with the others as external_dag_ids
DagSeq == <<"image_data_refresh", "audio_data_refresh">>

Dags == {DagSeq[i] : i \in 1..Len(DagSeq)}

external_dag_ids(d) == Dags \ {d}

DATA_REFRESH_POOL == "data_refresh"

DEFAULT_POOL == "default_pool"

data_refresh_slots_doubled == 1 + 1

\* "a special `data_refresh` pool with a single worker slot"
data_refresh_slots == 1

check_existence_off == FALSE

\* wait_for_data_refresh is created with check_existence=True
check_existence == TRUE

mode_poke == "poke"

\* wait_for_data_refresh is created with mode="reschedule"
mode == "reschedule"

\* poke_interval = int(os.getenv("DATA_REFRESH_POKE_INTERVAL", 60 * 15))
poke_interval == 60 * 15

reschedule_at_once == 0 * poke_interval

\* a rescheduled HttpSensor is started again poke_interval seconds later
reschedule_after == poke_interval

\* action_data_map, in insertion order
action_data_map == <<"ingest_upstream", "point_alias">>

ActionNames == {action_data_map[i] : i \in 1..Len(action_data_map)}

wait_for_data_refresh == "wait_for_data_refresh"

trigger(action) == "trigger_" \o action

waiter(action) == "wait_for_" \o action

TaskIds == {wait_for_data_refresh}
             \cup {trigger(a) : a \in ActionNames}
             \cup {waiter(a) : a \in ActionNames}

pool_default(t) == DEFAULT_POOL

pool(t) == IF t = wait_for_data_refresh THEN DATA_REFRESH_POOL ELSE DEFAULT_POOL

\* the TaskGroup of one action: trigger >> waiter
action_task_group(action) ==
    [roots |-> {trigger(action)},
     leaves |-> {waiter(action)},
     edges |-> {<<trigger(action), waiter(action)>>}]

\* tasks = [wait_for_data_refresh] + one TaskGroup per action
tasks ==
    <<[roots |-> {wait_for_data_refresh},
       leaves |-> {wait_for_data_refresh},
       edges |-> {}]>>
    \o [i \in 1..Len(action_data_map) |-> action_task_group(action_data_map[i])]

chain_unlinked(ts) == UNION {ts[i].edges : i \in 1..Len(ts)}

\* chain(*tasks): the leaves of each element are set upstream of the roots of the next
chain(ts) ==
    UNION {ts[i].edges : i \in 1..Len(ts)}
    \cup UNION {ts[i].leaves \X ts[i + 1].roots : i \in 1..(Len(ts) - 1)}

upstream_task_ids(t) == {u \in TaskIds : <<u, t>> \in chain(tasks)}

leaf_task_ids == {t \in TaskIds : \A u \in TaskIds : <<t, u>> \notin chain(tasks)}

----------------------------------------------------------------------------
(* HTTP responses of the ingestion server *)

StatusCodes == {202, 200, 500}

\* status_check urls the server may answer with, absolute or relative
StatusCheckUrls ==
    {"/task/abc", "http://ingestion-server:8001/task/abc",
     "http://ingestion-server:8001/task/xyz"}

\* urllib.parse.urlparse on these urls
urlparse(url) ==
    CASE url = "/task/abc" ->
            [scheme |-> "", netloc |-> "", path |-> "/task/abc"]
      [] url = "http://ingestion-server:8001/task/abc" ->
            [scheme |-> "http", netloc |-> "ingestion-server:8001", path |-> "/task/abc"]
      [] url = "http://ingestion-server:8001/task/xyz" ->
            [scheme |-> "http", netloc |-> "ingestion-server:8001", path |-> "/task/xyz"]

TriggerBodies == {<<>>} \cup {[status_check |-> u] : u \in StatusCheckUrls}

TriggerResponses == [status_code : StatusCodes, json : TriggerBodies]

PollBodies ==
    {a @@ e @@ p :
        a \in {<<>>} \cup {[active |-> v] : v \in BOOLEAN},
        e \in {<<>>} \cup {[error |-> v] : v \in BOOLEAN},
        p \in {<<>>} \cup {[percent_completed |-> v] : v \in {40, 100}}}

\* response_filter_data_refresh: the path of the status_check url, or the
\* KeyError of response.json()["status_check"]
response_filter_data_refresh(resp) ==
    IF "status_check" \notin DOMAIN resp.json
    THEN [raised |-> "KeyError", value |-> "none"]
    ELSE [raised |-> "none", value |-> urlparse(resp.json.status_check).path]

response_check_any_status(resp) == TRUE

\* response_check of the trigger operator: lambda response: response.status_code == 202
response_check_trigger(resp) == resp.status_code = 202

\* variants of response_check_wait_for_completion: one that validates both
\* fields before it looks at them, one that does not look at error
response_check_validating(data) ==
    IF "active" \notin DOMAIN data \/ "error" \notin DOMAIN data THEN "KeyError"
    ELSE IF data.active THEN "False"
    ELSE IF data.error THEN "AirflowException"
    ELSE IF "percent_completed" \notin DOMAIN data THEN "KeyError"
    ELSE "True"

response_check_ignoring_error(data) ==
    IF "active" \notin DOMAIN data THEN "KeyError"
    ELSE IF data.active THEN "False"
    ELSE IF "percent_completed" \notin DOMAIN data THEN "KeyError"
    ELSE "True"

\* response_check_wait_for_completion: "False" (poll again), "True" (done), or
\* the exception raised
response_check_wait_for_completion(data) ==
    IF "active" \notin DOMAIN data THEN "KeyError"
    ELSE IF data.active THEN "False"
    ELSE IF "error" \notin DOMAIN data THEN "KeyError"
    ELSE IF data.error THEN "AirflowException"
    ELSE IF "percent_completed" \notin DOMAIN data THEN "KeyError"
    ELSE "True"

----------------------------------------------------------------------------
(* State of the scheduler *)

TaskStates == {"none", "running", "up_for_reschedule", "success", "failed",
               "upstream_failed"}

FinishedStates == {"success", "failed", "upstream_failed"}

NoResponse == [dag |-> "none", run |-> 0, task |-> "none", data |-> <<>>,
               verdict |-> "none", endpoint |-> "none", n |-> 0,
               timed_out |-> FALSE]

NoSensorLog == [running |-> 0, waited |-> 0]

\* slots of the pool of task t that running task instances occupy
occupied_slots(p) ==
    Cardinality({<<d, t>> \in Dags \X TaskIds : pool(t) = p /\ ti[d][t] = "running"})

\* the default pool has 128 slots
open_slots(p) ==
    (IF p = DATA_REFRESH_POOL THEN data_refresh_slots ELSE 128) - occupied_slots(p)

is_running_any(d) == d \in registered /\ dagrun[d] = "running"

\* a DAG is 'running' iff its DagRun is RUNNING and its own wait_for_data_refresh
\* has completed successfully
is_running(d) ==
    /\ d \in registered
    /\ dagrun[d] = "running"
    /\ ti[d][wait_for_data_refresh] = "success"

\* check_existence=True: an external DAG without a row in the DAG table is an error
missing_external_dags(d) ==
    IF check_existence THEN external_dag_ids(d) \ registered ELSE {}

\* poke of the gate sensor of d
poke(d) ==
    IF missing_external_dags(d) # {} THEN "AirflowException"
    ELSE IF {e \in external_dag_ids(d) : is_running(e)} = {} THEN "True"
    ELSE "False"

----------------------------------------------------------------------------
(* nypl.py: values *)

RETRIES == 3

\* Python's None
None == [none |-> TRUE]

\* dict.get(key)
get(dict, key) == IF key \in DOMAIN dict THEN dict[key] ELSE None

\* the value of "result": a list of len items, or a single item as a dict
ResultValues ==
    {[type |-> "list", len |-> n] : n \in 0..MaxItems} \cup {[type |-> "dict", len |-> 1]}

\* the value of "response" in the body: a search page, the details of an item,
\* or a dict with neither
ResponseValues ==
    {<<>>, [mods |-> <<>>]} \cup {[result |-> r] : r \in ResultValues}

NyplApiValues == {<<>>} \cup {[response |-> v] : v \in ResponseValues}

JsonValues == {<<>>} \cup {[nyplAPI |-> v] : v \in NyplApiValues}

\* a body response.json() raises on, or one it decodes
Bodies == {[valid |-> FALSE]} \cup {[valid |-> TRUE, json |-> j] : j \in JsonValues}

\* what delay_request.get returns: a Response, or a value without status_code
Responses ==
    {<<>>, [status_code |-> 404, body |-> [valid |-> FALSE]]}
    \cup {[status_code |-> 200, body |-> b] : b \in Bodies}

\* lines 80-82: the payload of a body, or the exception the try block catches
payload(body) ==
    IF ~body.valid THEN [caught |-> TRUE, value |-> None]
    ELSE IF get(body.json, "nyplAPI") = None THEN [caught |-> TRUE, value |-> None]
    ELSE [caught |-> FALSE, value |-> get(get(body.json, "nyplAPI"), "response")]

\* type(results) == list and len(results) > 0
non_empty_list(r) == r # None /\ r.type = "list" /\ r.len > 0

\* the search has no items beyond page MaxPages
PageResponses(p) ==
    IF p <= MaxPages THEN Responses
    ELSE {r \in Responses :
            ~ /\ "status_code" \in DOMAIN r
              /\ r.status_code = 200
              /\ ~payload(r.body).caught
              /\ payload(r.body).value # None
              /\ non_empty_list(get(payload(r.body).value, "result"))}

Init ==
    /\ registered \in (SUBSET Dags) \ {{}}
    /\ dagrun = [d \in Dags |-> "none"]
    /\ run_id = [d \in Dags |-> 0]
    /\ ti = [d \in Dags |-> [t \in TaskIds |-> "none"]]
    /\ exc = [d \in Dags |-> [t \in TaskIds |-> "none"]]
    /\ poke_result = [d \in Dags |-> "none"]
    /\ index_suffix = [d \in Dags |-> CHOOSE i \in 1..Len(DagSeq) : DagSeq[i] = d]
    /\ next_uuid = Len(DagSeq) + 1
    /\ posted = [d \in Dags |-> [r \in 1..MaxRuns |-> [a \in ActionNames |-> 0]]]
    /\ xcom = [d \in Dags |-> [a \in ActionNames |-> "none"]]
    /\ polls = [d \in Dags |-> [a \in ActionNames |-> 0]]
    /\ response = NoResponse
    /\ returned = [d \in Dags |-> [a \in ActionNames |-> "none"]]
    /\ sensor_log = [d \in Dags |-> [a \in ActionNames |-> NoSensorLog]]
    /\ pc = "main"
    /\ page = 1
    /\ condition = TRUE
    /\ caller = "none"
    /\ results = None
    /\ todo = 0
    /\ exception = "none"
    /\ request_log = <<>>
    /\ requested = <<>>
    /\ page_results = <<>>
    /\ commits = 0

----------------------------------------------------------------------------
(* The factory *)

\* uuid.uuid4(): a value never drawn before
uuid4 == next_uuid

\* One call of create_data_refresh_task_group for DAG d, made each time the DAG
\* file is parsed: the task definitions are rebuilt around a new index_suffix.
create_data_refresh_task_group(d) ==
    /\ d \in registered
    /\ next_uuid <= MaxUuid
    /\ index_suffix' = [index_suffix EXCEPT ![d] = uuid4]
    /\ next_uuid' = next_uuid + 1
    /\ UNCHANGED <<registered, dagrun, run_id, ti, exc, poke_result, posted, xcom,
                   polls, response, returned, sensor_log>>
    /\ UNCHANGED nypl_vars

----------------------------------------------------------------------------
(* The scheduler *)

\* a DagRun that would take over the task instances that succeeded in the
\* DagRun before it
create_dagrun_resuming(d) ==
    /\ d \in registered
    /\ dagrun[d] # "running"
    /\ run_id[d] < MaxRuns
    /\ dagrun' = [dagrun EXCEPT ![d] = "running"]
    /\ run_id' = [run_id EXCEPT ![d] = @ + 1]
    /\ ti' = [ti EXCEPT ![d] = [t \in TaskIds |->
            IF dagrun[d] = "failed" /\ ti[d][t] = "success" THEN "success" ELSE "none"]]
    /\ exc' = [exc EXCEPT ![d] = [t \in TaskIds |-> "none"]]
    /\ poke_result' = [poke_result EXCEPT ![d] = "none"]
    /\ UNCHANGED <<registered, index_suffix, next_uuid, posted, response, xcom, polls,
                   returned, sensor_log>>
    /\ UNCHANGED nypl_vars

\* a new DagRun of d; a DAG has one DagRun at a time
create_dagrun(d) ==
    /\ d \in registered
    /\ dagrun[d] # "running"
    /\ run_id[d] < MaxRuns
    /\ dagrun' = [dagrun EXCEPT ![d] = "running"]
    /\ run_id' = [run_id EXCEPT ![d] = @ + 1]
    /\ ti' = [ti EXCEPT ![d] = [t \in TaskIds |-> "none"]]
    /\ exc' = [exc EXCEPT ![d] = [t \in TaskIds |-> "none"]]
    /\ poke_result' = [poke_result EXCEPT ![d] = "none"]
    /\ xcom' = [xcom EXCEPT ![d] = [a \in ActionNames |-> "none"]]
    /\ polls' = [polls EXCEPT ![d] = [a \in ActionNames |-> 0]]
    /\ returned' = [returned EXCEPT ![d] = [a \in ActionNames |-> "none"]]
    /\ sensor_log' = [sensor_log EXCEPT ![d] = [a \in ActionNames |-> NoSensorLog]]
    /\ UNCHANGED <<registered, index_suffix, next_uuid, posted, response>>
    /\ UNCHANGED nypl_vars

runnable_with_retry(d, t) ==
    /\ dagrun[d] = "running"
    /\ ti[d][t] \in {"none", "up_for_reschedule", "failed"}
    /\ \A u \in upstream_task_ids(t) : ti[d][u] = "success"
    /\ open_slots(pool(t)) > 0

\* trigger rule all_success and the pool of the task; the operators are made
\* without retries
runnable(d, t) ==
    /\ dagrun[d] = "running"
    /\ ti[d][t] \in {"none", "up_for_reschedule"}
    /\ \A u \in upstream_task_ids(t) : ti[d][u] = "success"
    /\ open_slots(pool(t)) > 0

\* the scheduler starts (or, for a rescheduled sensor, restarts) task instance t
run_task(d, t) ==
    /\ runnable(d, t)
    /\ ti' = [ti EXCEPT ![d][t] = "running"]
    /\ sensor_log' = [sensor_log EXCEPT ![d] = [a \in ActionNames |->
            IF t = waiter(a) /\ ti[d][t] = "up_for_reschedule"
            THEN [@[a] EXCEPT !.waited = @ + reschedule_after]
            ELSE @[a]]]
    /\ UNCHANGED <<registered, dagrun, run_id, exc, poke_result, index_suffix,
                   next_uuid, posted, xcom, polls, response, returned>>
    /\ UNCHANGED nypl_vars

\* a task instance that cannot run any more because a task upstream of it failed
mark_upstream_failed(d, t) ==
    /\ dagrun[d] = "running"
    /\ ti[d][t] = "none"
    /\ \E u \in upstream_task_ids(t) : ti[d][u] \in {"failed", "upstream_failed"}
    /\ ti' = [ti EXCEPT ![d][t] = "upstream_failed"]
    /\ UNCHANGED <<registered, dagrun, run_id, exc, poke_result, index_suffix,
                   next_uuid, posted, xcom, polls, response, returned, sensor_log>>
    /\ UNCHANGED nypl_vars

\* a scheduler that would end a DagRun only when every leaf task succeeded
update_state_on_success(d) ==
    /\ dagrun[d] = "running"
    /\ \A t \in leaf_task_ids : ti[d][t] = "success"
    /\ dagrun' = [dagrun EXCEPT ![d] = "success"]
    /\ UNCHANGED <<registered, run_id, ti, exc, poke_result, index_suffix, next_uuid,
                   posted, xcom, polls, response, returned, sensor_log>>
    /\ UNCHANGED nypl_vars

\* the DagRun ends once every task instance is finished: success iff every leaf
\* task succeeded
update_state(d) ==
    /\ dagrun[d] = "running"
    /\ \A t \in TaskIds : ti[d][t] \in FinishedStates
    /\ dagrun' = [dagrun EXCEPT ![d] =
            IF \A t \in leaf_task_ids : ti[d][t] = "success" THEN "success" ELSE "failed"]
    /\ UNCHANGED <<registered, run_id, ti, exc, poke_result, index_suffix, next_uuid,
                   posted, xcom, polls, response, returned, sensor_log>>
    /\ UNCHANGED nypl_vars

----------------------------------------------------------------------------
(* wait_for_data_refresh: the gate sensor, mode="reschedule", pool=data_refresh *)

\* the running sensor queries the scheduler's tables
poke_wait_for_data_refresh(d) ==
    /\ ti[d][wait_for_data_refresh] = "running"
    /\ poke_result[d] = "none"
    /\ poke_result' = [poke_result EXCEPT ![d] = poke(d)]
    /\ UNCHANGED <<registered, dagrun, run_id, ti, exc, index_suffix, next_uuid,
                   posted, xcom, polls, response, returned, sensor_log>>
    /\ UNCHANGED nypl_vars

\* The sensor ends its try: success, failed, or, when the poke answered False,
\* rescheduled (the slot is freed); in mode "poke" it would sleep as a running
\* task and poke again.
finish_wait_for_data_refresh(d) ==
    /\ ti[d][wait_for_data_refresh] = "running"
    /\ poke_result[d] # "none"
    /\ ti' = [ti EXCEPT ![d][wait_for_data_refresh] =
            CASE poke_result[d] = "True" -> "success"
              [] poke_result[d] = "False" ->
                    IF mode = "reschedule" THEN "up_for_reschedule" ELSE "running"
              [] OTHER -> "failed"]
    /\ exc' = [exc EXCEPT ![d][wait_for_data_refresh] =
            IF poke_result[d] \in {"True", "False"} THEN "none" ELSE poke_result[d]]
    /\ poke_result' = [poke_result EXCEPT ![d] = "none"]
    /\ UNCHANGED <<registered, dagrun, run_id, index_suffix, next_uuid, posted, xcom,
                   polls, response, returned, sensor_log>>
    /\ UNCHANGED nypl_vars

----------------------------------------------------------------------------
(* trigger_<action>: SimpleHttpOperator, POST task *)

\* the response as the observer of the HTTP traffic records it
observe(d, t, data, verdict, url, n, timed_out, observed) ==
    response' = IF observed
                THEN [dag |-> d, run |-> run_id[d], task |-> t, data |-> data,
                      verdict |-> verdict, endpoint |-> url, n |-> n,
                      timed_out |-> timed_out]
                ELSE response

execute_trigger(d, action, resp, observed) ==
    LET t == trigger(action)
        filtered == response_filter_data_refresh(resp)
        raised == IF ~response_check_trigger(resp) THEN "AirflowException"
                  ELSE filtered.raised
    IN
    /\ ti[d][t] = "running"
    /\ posted' = [posted EXCEPT ![d][run_id[d]][action] = index_suffix[d]]
    /\ ti' = [ti EXCEPT ![d][t] = IF raised = "none" THEN "success" ELSE "failed"]
    /\ exc' = [exc EXCEPT ![d][t] = raised]
    /\ xcom' = [xcom EXCEPT ![d][action] =
            IF raised = "none" THEN filtered.value ELSE "none"]
    /\ returned' = [returned EXCEPT ![d][action] =
            IF raised = "none" THEN resp.json.status_check ELSE "none"]
    /\ observe(d, t, resp, raised, "task", 0, FALSE, observed)
    /\ UNCHANGED <<registered, dagrun, run_id, poke_result, index_suffix, next_uuid,
                   polls, sensor_log>>
    /\ UNCHANGED nypl_vars

----------------------------------------------------------------------------
(* wait_for_<action>: HttpSensor, GET <status path>, mode="reschedule" *)

\* endpoint=XCOM_PULL_TEMPLATE.format(trigger.task_id, "return_value"), with
\* trigger the operator made in the same turn of the loop over action_data_map
endpoint_of_first(d, action) == xcom[d][action_data_map[1]]

endpoint(d, action) == xcom[d][action]

sensor_never_times_out(verdict, timed_out) ==
    IF verdict \in {"KeyError", "AirflowException"} THEN verdict ELSE "none"

\* what ends the sensor's try with a failure: the exception of response_check,
\* or AirflowSensorTimeout when the poke answered False after
\* timeout=data_refresh.data_refresh_timeout
sensor_raises(verdict, timed_out) ==
    CASE verdict \in {"KeyError", "AirflowException"} -> verdict
      [] verdict = "False" /\ timed_out -> "AirflowSensorTimeout"
      [] OTHER -> "none"

\* One poke. When response_check answers False the sensor is rescheduled, or,
\* once data_refresh_timeout has elapsed, fails with AirflowSensorTimeout.
poke_waiter(d, action, data, timed_out, observed) ==
    LET t == waiter(action)
        verdict == response_check_wait_for_completion(data)
        raised == sensor_raises(verdict, timed_out)
    IN
    /\ ti[d][t] = "running"
    /\ polls[d][action] < MaxPolls
    /\ verdict = "False" /\ polls[d][action] + 1 = MaxPolls => timed_out
    /\ verdict # "False" => ~timed_out
    /\ polls' = [polls EXCEPT ![d][action] = @ + 1]
    /\ ti' = [ti EXCEPT ![d][t] =
            CASE raised # "none" -> "failed"
              [] verdict = "True" -> "success"
              [] OTHER -> "up_for_reschedule"]
    /\ exc' = [exc EXCEPT ![d][t] = raised]
    /\ sensor_log' = [sensor_log EXCEPT ![d][action].running =
            IF verdict = "False" THEN @ + 1 ELSE @]
    /\ observe(d, t, data, verdict, endpoint(d, action), polls[d][action] + 1,
               timed_out, observed)
    /\ UNCHANGED <<registered, dagrun, run_id, poke_result, index_suffix, next_uuid,
                   posted, xcom, returned>>
    /\ UNCHANGED nypl_vars

----------------------------------------------------------------------------
(* nypl.py: main, _request_handler, _handle_results *)

\* lines 45-47, 55: the test of the while loop, then the call of
\* _request_handler(params=query_param) for the page, or the end of the loop
main_loop ==
    /\ pc = "main"
    /\ IF condition
       THEN /\ pc' = "_request_handler"
            /\ caller' = "main"
            /\ results' = None
            /\ request_log' = <<>>
            /\ requested' = Append(requested, page)
       ELSE /\ pc' = "commit"
            /\ UNCHANGED <<caller, results, request_log, requested>>
    /\ UNCHANGED <<page, condition, todo, exception, page_results, commits>>
    /\ UNCHANGED data_refresh_vars

\* where _request_handler returns to
return_to == IF caller = "main" THEN "main_results" ELSE "_handle_item"

\* lines 76-90: one turn of for retry in range(retries), with the return when
\* it is the last turn or the turn breaks
delay_request_get(resp) ==
    /\ pc = "_request_handler"
    /\ Len(request_log) < RETRIES
    /\ caller = "main" => resp \in PageResponses(page)
    /\ request_log' = Append(request_log, resp)
    /\ IF "status_code" \notin DOMAIN resp
       THEN /\ pc' = "raised"
            /\ exception' = "AttributeError"
            /\ UNCHANGED results
       ELSE IF resp.status_code = 200 /\ ~payload(resp.body).caught
       THEN /\ results' = payload(resp.body).value
            /\ pc' = return_to
            /\ UNCHANGED exception
       ELSE /\ results' = None
            /\ pc' = IF Len(request_log) + 1 = RETRIES THEN return_to ELSE pc
            /\ UNCHANGED exception
    /\ UNCHANGED <<page, condition, caller, todo, requested, page_results, commits>>
    /\ UNCHANGED data_refresh_vars

\* lines 48-54: results = request_response.get("result") and the branch on it
main_results ==
    /\ pc = "main_results"
    /\ IF results = None
       THEN /\ pc' = "raised"
            /\ exception' = "AttributeError"
            /\ UNCHANGED <<condition, todo, page_results>>
       ELSE IF non_empty_list(get(results, "result"))
       THEN /\ pc' = "_handle_results"
            /\ todo' = get(results, "result").len
            /\ page_results' = Append(page_results, "items")
            /\ UNCHANGED <<condition, exception>>
       ELSE /\ pc' = "main"
            /\ condition' = FALSE
            /\ page_results' = Append(page_results, "no items")
            /\ UNCHANGED <<todo, exception>>
    /\ UNCHANGED <<page, caller, results, request_log, requested, commits>>
    /\ UNCHANGED data_refresh_vars

\* lines 94-99, 51-52: the next item of the page and the request for its
\* details, or the return to main, which goes on to the next page
handle_results ==
    /\ pc = "_handle_results"
    /\ IF todo = 0
       THEN /\ pc' = "main"
            /\ page' = page + 1
            /\ UNCHANGED <<caller, results, request_log>>
       ELSE /\ pc' = "_request_handler"
            /\ caller' = "_handle_results"
            /\ results' = None
            /\ request_log' = <<>>
            /\ UNCHANGED page
    /\ UNCHANGED <<condition, todo, exception, requested, page_results, commits>>
    /\ UNCHANGED data_refresh_vars

\* lines 100-114: an item without details is skipped; mods.get raises when the
\* details have no mods
handle_item ==
    /\ pc = "_handle_item"
    /\ IF results # None /\ get(results, "mods") = None
       THEN /\ pc' = "raised"
            /\ exception' = "AttributeError"
            /\ UNCHANGED todo
       ELSE /\ pc' = "_handle_results"
            /\ todo' = todo - 1
            /\ UNCHANGED exception
    /\ UNCHANGED <<page, condition, caller, results, request_log, requested,
                   page_results, commits>>
    /\ UNCHANGED data_refresh_vars

\* line 55: image_store.commit()
commit ==
    /\ pc = "commit"
    /\ commits' = commits + 1
    /\ pc' = "done"
    /\ UNCHANGED <<page, condition, caller, results, todo, exception, request_log,
                   requested, page_results>>
    /\ UNCHANGED data_refresh_vars

----------------------------------------------------------------------------
(* Specifications *)

\* The sibling DAGs, parsed once, scheduled against a server that may refuse a
\* trigger, answer it without status_check, and answer a poll with any body.
RelativeResponses ==
    {r \in TriggerResponses :
        "status_check" \in DOMAIN r.json => r.json.status_check = "/task/abc"}

Next ==
    \/ \E d \in Dags : create_dagrun(d)
    \/ \E d \in Dags, t \in TaskIds : run_task(d, t)
    \/ \E d \in Dags, t \in TaskIds : mark_upstream_failed(d, t)
    \/ \E d \in Dags : update_state(d)
    \/ \E d \in Dags : poke_wait_for_data_refresh(d)
    \/ \E d \in Dags : finish_wait_for_data_refresh(d)
    \/ \E d \in Dags, a \in ActionNames, resp \in RelativeResponses :
            execute_trigger(d, a, resp, FALSE)
    \/ \E d \in Dags, a \in ActionNames, data \in PollBodies, timed_out \in BOOLEAN :
            poke_waiter(d, a, data, timed_out, FALSE)

Spec == Init /\ [][Next]_vars

\* every DAG file has been parsed and registered
InitAllRegistered == Init /\ registered = Dags

\* The same DAGs with the DAG files parsed again at any moment, against a server
\* that accepts every trigger.
AcceptedResponses == {[status_code |-> 202, json |-> [status_check |-> "/task/abc"]]}

WellFormedPollBodies ==
    {[active |-> TRUE, error |-> FALSE, percent_completed |-> 40],
     [active |-> FALSE, error |-> FALSE, percent_completed |-> 100]}

NextParse ==
    \/ \E d \in Dags : create_data_refresh_task_group(d)
    \/ \E d \in Dags : create_dagrun(d)
    \/ \E d \in Dags, t \in TaskIds : run_task(d, t)
    \/ \E d \in Dags : update_state(d)
    \/ \E d \in Dags : poke_wait_for_data_refresh(d)
    \/ \E d \in Dags : finish_wait_for_data_refresh(d)
    \/ \E d \in Dags, a \in ActionNames, resp \in AcceptedResponses :
            execute_trigger(d, a, resp, FALSE)
    \/ \E d \in Dags, a \in ActionNames, data \in WellFormedPollBodies :
            poke_waiter(d, a, data, FALSE, FALSE)

SpecParse == InitAllRegistered /\ [][NextParse]_vars

\* One of the DAGs scheduled while its siblings stay idle, with every response
\* of the server observed.
NextHttp ==
    \/ create_dagrun(DagSeq[1])
    \/ \E d \in Dags, t \in TaskIds : run_task(d, t)
    \/ \E d \in Dags, t \in TaskIds : mark_upstream_failed(d, t)
    \/ \E d \in Dags : update_state(d)
    \/ \E d \in Dags : poke_wait_for_data_refresh(d)
    \/ \E d \in Dags : finish_wait_for_data_refresh(d)
    \/ \E d \in Dags, a \in ActionNames, resp \in TriggerResponses :
            execute_trigger(d, a, resp, TRUE)
    \/ \E d \in Dags, a \in ActionNames, data \in PollBodies, timed_out \in BOOLEAN :
            poke_waiter(d, a, data, timed_out, TRUE)

SpecHttp == InitAllRegistered /\ [][NextHttp]_vars

\* The sibling DAGs against a server that accepts or refuses a trigger and
\* answers a poll with a well-formed body, under a scheduler that is fair.
LiveResponses ==
    AcceptedResponses \cup {[status_code |-> 500, json |-> <<>>]}

LivePollBodies ==
    WellFormedPollBodies
    \cup {[active |-> FALSE, error |-> TRUE, percent_completed |-> 40]}

\* a step of the scheduler, or of a task it has started, for DAG d
dag_step(d) ==
    \/ \E t \in TaskIds : run_task(d, t)
    \/ \E t \in TaskIds : mark_upstream_failed(d, t)
    \/ update_state(d)
    \/ poke_wait_for_data_refresh(d)
    \/ finish_wait_for_data_refresh(d)
    \/ \E a \in ActionNames, resp \in LiveResponses :
            execute_trigger(d, a, resp, FALSE)
    \/ \E a \in ActionNames, data \in LivePollBodies, timed_out \in BOOLEAN :
            poke_waiter(d, a, data, timed_out, FALSE)

NextLive ==
    \/ \E d \in Dags : create_dagrun(d)
    \/ \E d \in Dags : dag_step(d)

\* The scheduler does not leave a DAG for ever with a task instance that can
\* run, a started task that can go on, or a DagRun that can end.
Fairness == \A d \in Dags : WF_vars(dag_step(d))

SpecFair == InitAllRegistered /\ [][NextLive]_vars /\ Fairness

\* One run of the nypl script against a server that answers each request with
\* any response.
NextNypl ==
    \/ main_loop
    \/ \E resp \in Responses : delay_request_get(resp)
    \/ main_results
    \/ handle_results
    \/ handle_item
    \/ commit

SpecNypl == InitAllRegistered /\ [][NextNypl]_vars

TypeOK ==
    /\ registered \subseteq Dags
    /\ dagrun \in [Dags -> {"none", "running", "success", "failed"}]
    /\ run_id \in [Dags -> 0..MaxRuns]
    /\ ti \in [Dags -> [TaskIds -> TaskStates]]
    /\ next_uuid \in 1..(MaxUuid + 1)
    /\ index_suffix \in [Dags -> 1..MaxUuid]
    /\ polls \in [Dags -> [ActionNames -> 0..MaxPolls]]
    /\ pc \in {"main", "_request_handler", "main_results", "_handle_results",
              "_handle_item", "commit", "done", "raised"}
    /\ page \in 1..(MaxPages + 1)
    /\ condition \in BOOLEAN
    /\ todo \in 0..MaxItems
    /\ Len(request_log) <= RETRIES
    /\ commits \in 0..1

----------------------------------------------------------------------------
(* Properties *)

\* d is past its gate and its run has not ended
PastGate(d) == dagrun[d] = "running" /\ ti[d][wait_for_data_refresh] = "success"

\* the actions configured after action_data_map[i]
Later(i) == {action_data_map[j] : j \in (i + 1)..Len(action_data_map)}

\* trigger_<a> has been started in the current run of d
Triggered(d, a) == ti[d][trigger(a)] \in {"running", "success", "failed"}

\* trigger_<a> has sent its POST in the current run of d
Posted(d, a) == run_id[d] > 0 /\ posted[d][run_id[d]][a] # 0

\* action a of d is in Triggering or in Polling
InProgress(d, a) ==
    \/ ti[d][trigger(a)] = "running"
    \/ ti[d][trigger(a)] = "success" /\ ti[d][waiter(a)] \notin FinishedStates

\* C1: at most one data refresh DAG is past its gate with its run not ended,
\* and no two gate sensors have both seen 'clear'.
C1_OneActive ==
    Cardinality({d \in Dags : PastGate(d) \/ poke_result[d] = "True"}) <= 1

C1_Witness ==
    \E d, e \in Dags :
        /\ PastGate(d)
        /\ dagrun[e] = "running"
        /\ ti[e][wait_for_data_refresh] = "up_for_reschedule"

\* C2: the gate sensor of d succeeds only in a step that starts with no
\* external DAG past its gate.
C2_GateWaits ==
    [][\A d \in Dags :
          (ti[d][wait_for_data_refresh] # "success"
              /\ ti'[d][wait_for_data_refresh] = "success")
          => \A e \in external_dag_ids(d) : ~PastGate(e)]_vars

C2_Witness ==
    \E d \in Dags : \E e \in external_dag_ids(d) :
        /\ PastGate(e)
        /\ ti[d][wait_for_data_refresh] = "running"
        /\ poke_result[d] = "False"

\* C3: the trigger of an action is started only after the wait of the action
\* before it has succeeded, and at most one action is in progress.
C3_Sequential ==
    \A d \in Dags :
        /\ \A i \in 1..(Len(action_data_map) - 1) :
              Triggered(d, action_data_map[i + 1]) \/ Posted(d, action_data_map[i + 1])
              => ti[d][waiter(action_data_map[i])] = "success"
        /\ Cardinality({a \in ActionNames : InProgress(d, a)}) <= 1

C3_Witness ==
    \E d \in Dags :
        /\ ti[d][trigger("point_alias")] = "running"
        /\ polls[d]["ingest_upstream"] = MaxPolls

\* C4: the two triggers of one run post the same index_suffix.
C4_SameSuffixInRun ==
    \A d \in Dags : \A r \in 1..MaxRuns : \A a, b \in ActionNames :
        posted[d][r][a] # 0 /\ posted[d][r][b] # 0
        => posted[d][r][a] = posted[d][r][b]

Polled(d, a) ==
    response.dag = d /\ response.run = run_id[d] /\ response.task = waiter(a)

\* the last response was handed to trigger_<a> of the current run of d
Answered(d, a) ==
    response.dag = d /\ response.run = run_id[d] /\ response.task = trigger(a)

Raises == {"KeyError", "AirflowException"}

\* C6: a poll body that has active and error is decoded by the decision table:
\* active gives False (Running), else error raises (Failed), else True (Succeeded).
C6_DecisionTable ==
    \A d \in Dags : \A a \in ActionNames :
        Polled(d, a) /\ {"active", "error"} \subseteq DOMAIN response.data
        => CASE response.data.active -> response.verdict = "False"
             [] ~response.data.active /\ response.data.error ->
                    response.verdict \in Raises
             [] OTHER -> response.verdict = "True"

\* C7, as claimed: a poll body that misses active or error is Failed and does
\* not leave the sensor polling.
C7_MalformedIsFailed ==
    \A d \in Dags : \A a \in ActionNames :
        Polled(d, a) /\ ~({"active", "error"} \subseteq DOMAIN response.data)
        => response.verdict \in Raises /\ ti[d][waiter(a)] = "failed"

\* C7, amended: a body without active is Failed, a body with active false and
\* without error is Failed, and a body with active true is Running whether it
\* has error or not.
C7_MalformedAmended ==
    \A d \in Dags : \A a \in ActionNames :
        Polled(d, a) /\ ~({"active", "error"} \subseteq DOMAIN response.data)
        => IF "active" \in DOMAIN response.data /\ response.data.active
           THEN response.verdict = "False" /\ exc[d][waiter(a)] \notin Raises
           ELSE response.verdict = "KeyError" /\ ti[d][waiter(a)] = "failed"

C7_Witness ==
    \E d \in Dags : \E a \in ActionNames :
        /\ Polled(d, a)
        /\ DOMAIN response.data = {"active"}
        /\ response.data.active
        /\ ti[d][waiter(a)] = "up_for_reschedule"

\* a trigger response that is not a 202 with a status_check
Rejected(resp) == resp.status_code # 202 \/ "status_check" \notin DOMAIN resp.json

\* nothing of action a after its trigger, and nothing of the later actions, has
\* happened in the current run of d
NothingAfterTrigger(d, i) ==
    /\ polls[d][action_data_map[i]] = 0
    /\ ti[d][waiter(action_data_map[i])] \in {"none", "upstream_failed"}
    /\ \A b \in Later(i) :
          /\ ~Triggered(d, b)
          /\ ~Posted(d, b)
          /\ polls[d][b] = 0

\* C8: after a rejected trigger response the trigger task is failed, the run
\* does not succeed, the action is never polled and no later action is triggered.
C8_TriggerRejected ==
    \A d \in Dags : \A i \in 1..Len(action_data_map) :
        Answered(d, action_data_map[i]) /\ Rejected(response.data)
        => /\ ti[d][trigger(action_data_map[i])] = "failed"
           /\ dagrun[d] \in {"running", "failed"}
           /\ NothingAfterTrigger(d, i)

C8_Witness ==
    \E d \in Dags :
        /\ Answered(d, "ingest_upstream")
        /\ response.data.status_code = 500
        /\ dagrun[d] = "failed"

\* C9: after a poll body with active false and error true the wait task is
\* failed, the run does not succeed and no later action is triggered.
C9_RemoteError ==
    \A d \in Dags : \A i \in 1..Len(action_data_map) :
        /\ Polled(d, action_data_map[i])
        /\ {"active", "error"} \subseteq DOMAIN response.data
        /\ ~response.data.active
        /\ response.data.error
        => /\ ti[d][waiter(action_data_map[i])] = "failed"
           /\ dagrun[d] \in {"running", "failed"}
           /\ \A b \in Later(i) : ~Triggered(d, b) /\ ~Posted(d, b)

C9_Witness ==
    \E d \in Dags :
        /\ Polled(d, "ingest_upstream")
        /\ {"active", "error"} \subseteq DOMAIN response.data
        /\ ~response.data.active
        /\ response.data.error
        /\ ti[d][trigger("point_alias")] = "upstream_failed"
        /\ dagrun[d] = "failed"

HoldsSlot(d) ==
    \E t \in TaskIds : pool(t) = DATA_REFRESH_POOL /\ ti[d][t] = "running"

\* d is past its gate and waits for action a to complete
Polling(d, a) ==
    /\ dagrun[d] = "running"
    /\ ti[d][trigger(a)] = "success"
    /\ ti[d][waiter(a)] \notin FinishedStates

\* C11: after the poke in which wait_for_<a> timed out, the wait task is failed
\* with AirflowSensorTimeout, the run does not succeed, no task of the DAG runs
\* (it holds no slot of any pool) and the DAG sends no further POST or GET.
C11_TimeoutFails ==
    \A d \in Dags : \A i \in 1..Len(action_data_map) :
        Polled(d, action_data_map[i]) /\ response.timed_out
        => /\ ti[d][waiter(action_data_map[i])] = "failed"
           /\ exc[d][waiter(action_data_map[i])] = "AirflowSensorTimeout"
           /\ dagrun[d] \in {"running", "failed"}
           /\ \A t \in TaskIds : ti[d][t] # "running"
           /\ ~HoldsSlot(d)
           /\ polls[d][action_data_map[i]] = response.n
           /\ \A b \in Later(i) : ~Triggered(d, b) /\ ~Posted(d, b) /\ polls[d][b] = 0

C11_Witness ==
    \E d \in Dags :
        /\ Polled(d, "ingest_upstream")
        /\ response.timed_out
        /\ ti[d][waiter("point_alias")] = "upstream_failed"
        /\ dagrun[d] = "failed"

\* C12: a DAG that is Polling holds the data_refresh slot and no other DAG
\* holds it.
C12_PollingHoldsSlot ==
    \A d \in Dags : \A a \in ActionNames :
        Polling(d, a)
        => HoldsSlot(d) /\ \A e \in Dags \ {d} : ~HoldsSlot(e)

\* C13: the gate check that found a sibling active ends with the sensor
\* rescheduled and a slot of the data_refresh pool open, and a rescheduled gate
\* sensor holds no slot.
C13_GateFreesSlot ==
    [][\A d \in Dags :
          /\ ti[d][wait_for_data_refresh] = "up_for_reschedule" => ~HoldsSlot(d)
          /\ (ti[d][wait_for_data_refresh] = "running"
                 /\ poke_result[d] = "False" /\ poke_result'[d] = "none")
             => /\ ti'[d][wait_for_data_refresh] = "up_for_reschedule"
                /\ (open_slots(DATA_REFRESH_POOL))' >= 1]_vars

C13_Witness ==
    \E d \in Dags : \E e \in Dags \ {d} :
        /\ dagrun[d] = "running"
        /\ ti[d][wait_for_data_refresh] = "up_for_reschedule"
        /\ ti[e][wait_for_data_refresh] = "running"

\* every DAG has a run that has not finished its gate
AllGating ==
    /\ registered = Dags
    /\ \A d \in Dags :
          dagrun[d] = "running" /\ ti[d][wait_for_data_refresh] \notin FinishedStates

\* C14: a gate check answers False only when an external DAG has completed its
\* own gate, and whenever every DAG is waiting in its gate one of them
\* eventually passes it.
C14_NoGateDeadlock ==
    /\ [][\A d \in Dags :
            poke_result[d] = "none" /\ poke_result'[d] = "False"
            => \E e \in external_dag_ids(d) : PastGate(e)]_vars
    /\ (AllGating ~> \E d \in Dags : PastGate(d))

C14_Witness ==
    /\ AllGating
    /\ \E d \in Dags : ti[d][wait_for_data_refresh] = "running" /\ poke_result[d] = "True"
    /\ \E d \in Dags : ti[d][wait_for_data_refresh] = "none"

\* C15: whatever a run has done beyond its gate (a trigger or wait task
\* started or skipped over, a POST, a GET) it has done after its own
\* wait_for_data_refresh succeeded; a run whose gate has not finished has
\* every other task instance untouched.
C15_GateFirst ==
    \A d \in Dags :
        /\ \A a \in ActionNames :
              \/ Triggered(d, a)
              \/ Posted(d, a) /\ dagrun[d] = "running"
              \/ ti[d][waiter(a)] \in {"running", "up_for_reschedule", "success", "failed"}
              \/ polls[d][a] > 0
              => ti[d][wait_for_data_refresh] = "success"
        /\ ti[d][wait_for_data_refresh] \notin FinishedStates
           => \A t \in TaskIds \ {wait_for_data_refresh} : ti[d][t] = "none"

C15_Witness ==
    \E d \in Dags : \E e \in Dags \ {d} :
        /\ ti[d][trigger("ingest_upstream")] = "running"
        /\ dagrun[e] = "running"
        /\ ti[e][wait_for_data_refresh] = "none"

\* a poll body that decodes to Succeeded by the decision table
SucceededBody(data) ==
    /\ {"active", "error"} \subseteq DOMAIN data
    /\ ~data.active
    /\ ~data.error

\* C16: a run that ended in success has every task succeeded, a POST, a pushed
\* status path and at least one GET for every action, its last response being
\* a Succeeded poll of the last action; a run with a failed or skipped task, or
\* a task ended by an exception, has not ended in success.
C16_FinishedOnlyIfAllSucceeded ==
    \A d \in Dags :
        /\ dagrun[d] = "success"
           => /\ \A t \in TaskIds : ti[d][t] = "success" /\ exc[d][t] = "none"
              /\ \A a \in ActionNames :
                    Posted(d, a) /\ xcom[d][a] # "none" /\ polls[d][a] >= 1
              /\ response.dag = d /\ response.run = run_id[d]
                 => /\ response.task = waiter(action_data_map[Len(action_data_map)])
                    /\ SucceededBody(response.data)
        /\ (\E t \in TaskIds :
                ti[d][t] \in {"failed", "upstream_failed"} \/ exc[d][t] # "none")
           => dagrun[d] # "success"

C16_Witness ==
    \E d \in Dags :
        /\ dagrun[d] = "success"
        /\ polls[d]["ingest_upstream"] = MaxPolls
        /\ response.run = run_id[d]

C18_PollsAndIntervals ==
    \A d \in Dags : \A i \in 1..Len(action_data_map) :
        LET a == action_data_map[i] IN
        /\ ti[d][waiter(a)] = "success"
           => /\ polls[d][a] = sensor_log[d][a].running + 1
              /\ sensor_log[d][a].waited >= sensor_log[d][a].running * poke_interval
        /\ \A b \in Later(i) : Triggered(d, b) => ti[d][waiter(a)] = "success"

C18_Witness ==
    \E d \in Dags :
        /\ ti[d][waiter("ingest_upstream")] = "success"
        /\ sensor_log[d]["ingest_upstream"].running = MaxPolls - 1
        /\ sensor_log[d]["ingest_upstream"].running >= 1
        /\ ti[d][trigger("point_alias")] = "success"

\* C19: as long as the last response a DAG has received is one of an earlier
\* run, its current run has sent nothing, has pushed nothing and has started
\* no task except its gate and the trigger of the first action; and in every
\* run the trigger of an action starts only after the POST of the action
\* before it was sent in that run.
C19_StartsOver ==
    \A d \in Dags :
        /\ (response.dag = d /\ response.run < run_id[d])
           => /\ \A a \in ActionNames :
                    /\ ~Posted(d, a)
                    /\ polls[d][a] = 0
                    /\ xcom[d][a] = "none"
                    /\ ti[d][waiter(a)] = "none"
                    /\ ti[d][trigger(a)] \in {"none", "running"}
              /\ \A i \in 2..Len(action_data_map) :
                    ti[d][trigger(action_data_map[i])] = "none"
              /\ ti[d][wait_for_data_refresh] # "success"
                 => ti[d][trigger(action_data_map[1])] = "none"
        /\ \A i \in 1..(Len(action_data_map) - 1) :
              Triggered(d, action_data_map[i + 1]) => Posted(d, action_data_map[i])

C19_Witness ==
    \E d \in Dags :
        /\ run_id[d] = 2
        /\ response.dag = d
        /\ response.run = 1
        /\ response.task = trigger("point_alias")
        /\ Rejected(response.data)
        /\ ti[d][trigger("ingest_upstream")] = "running"

\* the path of the status_check urls
PathOf(url) ==
    CASE url \in {"/task/abc", "http://ingestion-server:8001/task/abc"} -> "/task/abc"
      [] url = "http://ingestion-server:8001/task/xyz" -> "/task/xyz"
      [] OTHER -> "none"

\* C20: every GET of wait_for_<a> goes to the path of the status_check url that
\* trigger_<a> was answered in the same run.
C20_PollsOwnEndpoint ==
    \A d \in Dags : \A a \in ActionNames :
        Polled(d, a)
        => /\ returned[d][a] # "none"
           /\ response.endpoint = PathOf(returned[d][a])

C20_Witness ==
    \E d \in Dags :
        /\ Polled(d, "point_alias")
        /\ returned[d]["point_alias"] = "http://ingestion-server:8001/task/xyz"
        /\ returned[d]["ingest_upstream"] = "/task/abc"
        /\ response.endpoint = "/task/xyz"

\* C21: a poll body with active false and error false is decoded as Succeeded
\* whatever it carries as percent_completed, and two poll bodies that agree on
\* active and error are decoded alike.
C21_PercentIsInformational ==
    /\ \A d \in Dags : \A a \in ActionNames :
          Polled(d, a) /\ SucceededBody(response.data)
          => /\ response.verdict = "True"
             /\ ti[d][waiter(a)] = "success"
             /\ exc[d][waiter(a)] = "none"
    /\ \A d \in Dags : \A a \in ActionNames :
          Polled(d, a)
          => \A other \in PollBodies :
                (\A f \in {"active", "error"} :
                    /\ f \in DOMAIN other <=> f \in DOMAIN response.data
                    /\ f \in DOMAIN other => other[f] = response.data[f])
                => response_check_wait_for_completion(other) = response.verdict

\* the DagRun of d has ended
Terminal(d) == dagrun[d] \in {"success", "failed"}

\* d has a run waiting in its gate
Gating(d) ==
    dagrun[d] = "running" /\ ti[d][wait_for_data_refresh] \notin FinishedStates

\* C22: a DAG whose run has ended is not counted as running by the gate of a
\* sibling, a gate check made while every external DAG has ended answers True,
\* a run that is past its gate eventually ends, and a sibling that waits in its
\* gate while the run of d has ended eventually passes its gate.
C22_TerminatedUnblocks ==
    /\ [][\A d \in Dags :
            /\ Terminal(d)' => ~is_running(d)'
            /\ (poke_result[d] = "none" /\ poke_result'[d] # "none"
                   /\ \A e \in external_dag_ids(d) : Terminal(e))
               => poke_result'[d] = "True"]_vars
    /\ \A d \in Dags : PastGate(d) ~> Terminal(d)
    /\ \A d \in Dags : \A e \in Dags \ {d} :
          (Terminal(d) /\ Gating(e)) ~> PastGate(e)

C22_Witness ==
    \E d \in Dags : \E e \in Dags \ {d} :
        /\ dagrun[d] = "failed"
        /\ \E a \in ActionNames : exc[d][waiter(a)] = "AirflowSensorTimeout"
        /\ Gating(e)
        /\ ti[e][wait_for_data_refresh] = "running"
        /\ poke_result[e] = "True"

\* a response _request_handler takes its payload from
Usable(resp) ==
    /\ "status_code" \in DOMAIN resp
    /\ resp.status_code = 200
    /\ ~payload(resp.body).caught

\* the last call of _request_handler is over
HandlerEnded == pc # "_request_handler" /\ request_log # <<>>

\* C23: a call of _request_handler makes at most RETRIES requests and none
\* after a usable response; it returns the payload of a usable response, and
\* when every response was unusable it has made RETRIES requests and returns
\* None.
C23_AtMostRetries ==
    /\ Len(request_log) <= RETRIES
    /\ \A i \in 1..(Len(request_log) - 1) : ~Usable(request_log[i])
    /\ HandlerEnded
       => IF Usable(request_log[Len(request_log)])
          THEN results = payload(request_log[Len(request_log)].body).value
          ELSE /\ Len(request_log) = RETRIES
               /\ results = None
               /\ pc = "raised" => requested # <<>> /\ caller = "main"
                                   /\ Len(page_results) < Len(requested)
                                   /\ "status_code" \in DOMAIN request_log[RETRIES]

\* main is over
MainEnded == pc \in {"done", "raised"}

\* C24: main asks for the pages 1, 2, 3, ... in this order, asks for no page
\* after one whose result is not a non-empty list, and has called
\* image_store.commit() exactly once when it is over.
C24_PagesThenCommit ==
    /\ \A i \in 1..Len(requested) : requested[i] = i
    /\ \A i \in 1..Len(page_results) :
          page_results[i] = "no items" => i = Len(requested)
    /\ commits <= 1
    /\ commits = 1 => pc = "done"
    /\ MainEnded => commits = 1

====
